---- MODULE Spec2Model ----
(***************************************************************************)
(* Model of app/lib/data.ts: the read-only data-access layer of the        *)
(* dashboard.  The row store (tables revenue, customers, invoices) is the  *)
(* state the operations read; every exported function is one operation.    *)
(* The operations share no state, so a behaviour is one store content and  *)
(* one call on it, from the call to the value returned or the Error thrown.*)
(* Text values are tuples of one-character strings so that ILIKE, ::text   *)
(* and the currency formatter can be computed character by character.      *)
(***************************************************************************)
EXTENDS Integers, Sequences, FiniteSets, TLC

(* ---------------------------------------------------------------------- *)
(* Bounds of the model                                                     *)
(* ---------------------------------------------------------------------- *)
\* rows in table invoices
MaxInvoices == 13

\* rows of each of the two pending kinds among them
MaxPending == 2

\* page numbers asked for
MaxPage == 3

(* ---------------------------------------------------------------------- *)
(* Program constants                                                       *)
(* ---------------------------------------------------------------------- *)
ITEMS_PER_PAGE == 6

LatestLimit == 5

(* ---------------------------------------------------------------------- *)
(* JavaScript values                                                       *)
(* ---------------------------------------------------------------------- *)
\* a JavaScript value is a record tagged with its kind
JsUndefined == [kind |-> "undefined"]

JsNull == [kind |-> "null"]

JsObject(fields) == [kind |-> "object", obj |-> fields]

JsArray(elems) == [kind |-> "array", elems |-> elems]

JsNumber(n) == [kind |-> "number", num |-> n]

\* the text of an absent property
Undefined == <<"undefined">>

\* Array.isArray(v)
IsArray(v) == v.kind = "array"

\* v[0]
Index0(v) == IF Len(v.elems) >= 1 THEN v.elems[1] ELSE JsUndefined

\* v?.name, v?.image_url, v?.email: undefined on null, undefined, and on
\* anything that has no such property
OptName(v) == IF v.kind = "object" THEN v.obj.name ELSE Undefined

OptImageUrl(v) == IF v.kind = "object" THEN v.obj.image_url ELSE Undefined

OptEmail(v) == IF v.kind = "object" THEN v.obj.email ELSE Undefined

\* Number(v ?? '0')
NumberOrZero(v) == IF v.kind \in {"null", "undefined"} THEN 0 ELSE v.num

Min(a, b) == IF a < b THEN a ELSE b

(* ---------------------------------------------------------------------- *)
(* Text                                                                    *)
(* ---------------------------------------------------------------------- *)
LowerMap ==
  [A |-> "a", B |-> "b", C |-> "c", D |-> "d", E |-> "e", F |-> "f",
   G |-> "g", H |-> "h", I |-> "i", J |-> "j", K |-> "k", L |-> "l",
   M |-> "m", N |-> "n", O |-> "o", P |-> "p", Q |-> "q", R |-> "r",
   S |-> "s", T |-> "t", U |-> "u", V |-> "v", W |-> "w", X |-> "x",
   Y |-> "y", Z |-> "z"]

LowerChar(c) == IF c \in DOMAIN LowerMap THEN LowerMap[c] ELSE c

Lower(s) == [i \in 1..Len(s) |-> LowerChar(s[i])]

DigitChar == <<"0", "1", "2", "3", "4", "5", "6", "7", "8", "9">>

RECURSIVE IntText(_)
\* integer::text, decimal digits without padding
IntText(n) ==
  IF n < 10 THEN <<DigitChar[n + 1]>>
  ELSE IntText(n \div 10) \o <<DigitChar[(n % 10) + 1]>>

Pad2(n) == <<DigitChar[(n \div 10) + 1], DigitChar[(n % 10) + 1]>>

\* date::text, ISO form yyyy-mm-dd; a date is <<year, month, day>>
DateText(d) == IntText(d[1]) \o <<"-">> \o Pad2(d[2]) \o <<"-">> \o Pad2(d[3])

DateLess(a, b) ==
  \/ a[1] < b[1]
  \/ a[1] = b[1] /\ a[2] < b[2]
  \/ a[1] = b[1] /\ a[2] = b[2] /\ a[3] < b[3]

\* position of a character in the collation used by ORDER BY name
Collation ==
  <<"%", ".", "0", "1", "2", "3", "4", "5", "6", "7", "8", "9", "@", "_",
    "a", "b", "c", "d", "e", "f", "g", "h", "i", "j", "k", "l", "m", "n",
    "o", "p", "q", "r", "s", "t", "u", "v", "w", "x", "y", "z">>

Ord(c) == CHOOSE i \in 1..Len(Collation) : Collation[i] = LowerChar(c)

RECURSIVE TextLess(_, _)
TextLess(a, b) ==
  IF b = <<>> THEN FALSE
  ELSE IF a = <<>> THEN TRUE
  ELSE IF Ord(Head(a)) # Ord(Head(b)) THEN Ord(Head(a)) < Ord(Head(b))
  ELSE TextLess(Tail(a), Tail(b))

RECURSIVE LikeMatch(_, _)
\* SQL LIKE: % matches any run of characters, _ any one character,
\* a backslash makes the next pattern character literal
LikeMatch(p, s) ==
  IF p = <<>> THEN s = <<>>
  ELSE IF Head(p) = "%"
    THEN LikeMatch(Tail(p), s) \/ (s # <<>> /\ LikeMatch(p, Tail(s)))
  ELSE IF Head(p) = "_"
    THEN s # <<>> /\ LikeMatch(Tail(p), Tail(s))
  ELSE IF Head(p) = "\\" /\ Len(p) >= 2
    THEN s # <<>> /\ Head(s) = p[2] /\ LikeMatch(Tail(Tail(p)), Tail(s))
  ELSE s # <<>> /\ Head(s) = Head(p) /\ LikeMatch(Tail(p), Tail(s))

\* text ILIKE pattern
ILike(s, p) == LikeMatch(Lower(p), Lower(s))

\* the bound parameter `%${query}%`
QueryPattern(query) == <<"%">> \o query \o <<"%">>

\* formatCurrency of ./utils: minor units rendered as a currency string
formatCurrency(amount) ==
  <<"$">> \o IntText(amount \div 100) \o <<".">> \o Pad2(amount % 100)

RECURSIVE GCD(_, _)
GCD(a, b) == IF b = 0 THEN a ELSE GCD(b, a % b)

\* the JavaScript number amount / 100, kept as a reduced fraction
DivideBy100(amount) ==
  LET g == GCD(amount, 100)
  IN  [num |-> amount \div g, den |-> 100 \div g]

(* ---------------------------------------------------------------------- *)
(* The row store                                                           *)
(* ---------------------------------------------------------------------- *)
VARIABLES
  revenue,            \* table revenue: sequence of [month, revenue]
  customers,          \* table customers: sequence of [id, name, email, image_url]
  invoices,           \* table invoices: sequence of [id, customer_id, amount, date, status]
  pc,                 \* where the running call is suspended, "idle" when none is
  call,               \* the operation called last and its arguments
  ret,                \* how the call ended: returned value or thrown Error
  log,                \* console.error entries written by the call
  issued,             \* sub-queries of fetchCardData sent to the store so far
  count,              \* fetchInvoicesPages: count.rows[0].count
  invoiceCount,       \* fetchCardData locals
  invoiceError,
  customerCount,
  customerError,
  invoiceStatusError,
  paidTotal,
  pendingTotal

vars ==
  <<revenue, customers, invoices, pc, call, ret, log, issued, count,
    invoiceCount, invoiceError, customerCount, customerError,
    invoiceStatusError, paidTotal, pendingTotal>>

Anna ==
  [id |-> 1, name |-> <<"A", "n", "n", "a">>,
   email |-> <<"a", "@", "q", ".", "i", "o">>,
   image_url |-> <<"1">>]

Bo ==
  [id |-> 2, name |-> <<"B", "o">>,
   email |-> <<"b", "a", "n", "n", "e", "r", "@", "x", ".", "c", "o", "m">>,
   image_url |-> <<"2">>]

Cy ==
  [id |-> 3, name |-> <<"c", "y">>,
   email |-> <<"C", "Y", "@", "x", ".", "c", "o", "m">>,
   image_url |-> <<"3">>]

\* contents of table customers: Cy never owns an invoice, and in the
\* second table the owner of some invoices is missing
CustomerTables == {<<Bo, Cy, Anna>>, <<Cy, Anna>>}

RevenueTable ==
  <<[month |-> <<"J", "a", "n">>, revenue |-> 2000],
    [month |-> <<"F", "e", "b">>, revenue |-> 1800]>>

\* the kinds of invoice rows the store is filled with
InvoiceKinds ==
  <<[customer_id |-> 1, amount |-> 125000, date |-> <<2022, 12, 6>>,
     status |-> <<"p", "a", "i", "d">>],
    [customer_id |-> 2, amount |-> 12345, date |-> <<2022, 12, 6>>,
     status |-> <<"p", "e", "n", "d", "i", "n", "g">>],
    [customer_id |-> 1, amount |-> 500, date |-> <<2023, 1, 15>>,
     status |-> <<"p", "e", "n", "d", "i", "n", "g">>]>>

\* table invoices holding n[k] rows of kind k, ids 1, 2, ...
MakeInvoices(n) ==
  [i \in 1..(n[1] + n[2] + n[3]) |->
     LET k == IF i <= n[1] THEN 1 ELSE IF i <= n[1] + n[2] THEN 2 ELSE 3
     IN  [id |-> i,
          customer_id |-> InvoiceKinds[k].customer_id,
          amount |-> InvoiceKinds[k].amount,
          date |-> InvoiceKinds[k].date,
          status |-> InvoiceKinds[k].status]]

\* error texts the store can report or raise
ErrTexts == {<<"t", "i", "m", "e", "o", "u", "t">>, <<"4", "2", "P", "0", "1">>}

\* outcome of one query sent through the structured client: rows, an
\* error in the response, or a rejected promise
BuilderOutcomes ==
  {[kind |-> "ok", text |-> <<>>]}
    \cup {[kind |-> k, text |-> t] : k \in {"reported", "raised"}, t \in ErrTexts}

\* outcome of one query sent through the sql template: rows or a rejection
SqlOutcomes ==
  {[kind |-> "ok", text |-> <<>>]}
    \cup {[kind |-> "raised", text |-> t] : t \in ErrTexts}

\* search terms
Queries ==
  {<<>>,
   <<"a", "n", "n">>,
   <<"P", "a", "i", "d">>,
   <<"1", "2", "5", "0">>,
   <<"2", "2", "-", "1", "2">>,
   <<"_">>,
   <<"%">>,
   <<"z">>}

\* how the store orders rows that ORDER BY leaves tied
TieOrders == {"idAsc", "idDesc"}

\* how the store returns the to-one relation customers(...)
JoinShapes == {"object", "array"}

(* ---------------------------------------------------------------------- *)
(* SQL evaluated over the tables                                           *)
(* ---------------------------------------------------------------------- *)
SeqToSet(s) == {s[i] : i \in 1..Len(s)}

RECURSIVE SumAmounts(_)
\* SUM(amount) over a set of rows
SumAmounts(S) ==
  IF S = {} THEN 0
  ELSE LET x == CHOOSE y \in S : TRUE
       IN  x.amount + SumAmounts(S \ {x})

\* invoices JOIN customers ON invoices.customer_id = customers.id
JoinedInvoices ==
  {[id |-> i.id, customer_id |-> i.customer_id, amount |-> i.amount,
    date |-> i.date, status |-> i.status,
    name |-> c.name, email |-> c.email, image_url |-> c.image_url]
     : <<i, c>> \in {<<i, c>> \in SeqToSet(invoices) \X SeqToSet(customers) :
                       i.customer_id = c.id}}

\* the WHERE clause shared by fetchFilteredInvoices and fetchInvoicesPages
InvoiceWhere(r, query) ==
  \/ ILike(r.name, QueryPattern(query))
  \/ ILike(r.email, QueryPattern(query))
  \/ ILike(IntText(r.amount), QueryPattern(query))
  \/ ILike(DateText(r.date), QueryPattern(query))
  \/ ILike(r.status, QueryPattern(query))

\* the WHERE clause of fetchInvoicesPages
PagesWhere(r, query) ==
  \/ ILike(r.name, QueryPattern(query))
  \/ ILike(r.email, QueryPattern(query))
  \/ ILike(IntText(r.amount), QueryPattern(query))
  \/ ILike(DateText(r.date), QueryPattern(query))
  \/ ILike(r.status, QueryPattern(query))

\* r comes before s under ORDER BY date DESC, ties broken as the store likes
DateDescBefore(r, s, tie) ==
  \/ DateLess(s.date, r.date)
  \/ r.date = s.date /\ (IF tie = "idAsc" THEN r.id < s.id ELSE r.id > s.id)

RECURSIVE OrderByDateDesc(_, _)
OrderByDateDesc(S, tie) ==
  IF S = {} THEN <<>>
  ELSE LET first == CHOOSE r \in S :
                      \A s \in S \ {r} : DateDescBefore(r, s, tie)
       IN  <<first>> \o OrderByDateDesc(S \ {first}, tie)

\* r comes before s under ORDER BY name ASC (ties by id)
NameAscBefore(r, s) ==
  \/ TextLess(r.name, s.name)
  \/ ~TextLess(s.name, r.name) /\ r.id < s.id

RECURSIVE OrderByNameAsc(_)
OrderByNameAsc(S) ==
  IF S = {} THEN <<>>
  ELSE LET first == CHOOSE r \in S : \A s \in S \ {r} : NameAscBefore(r, s)
       IN  <<first>> \o OrderByNameAsc(S \ {first})

\* LIMIT lim OFFSET off
LimitOffset(rows, lim, off) == SubSeq(rows, off + 1, Min(Len(rows), off + lim))

(* ---------------------------------------------------------------------- *)
(* Errors and results                                                      *)
(* ---------------------------------------------------------------------- *)
NoError == [null |-> TRUE, message |-> <<>>]

StoreError(text) == [null |-> FALSE, message |-> text]

\* the error field of a structured-client response
ErrorOf(o) == IF o.kind = "reported" THEN StoreError(o.text) ELSE NoError

Returned(v) == [status |-> "ok", value |-> v, message |-> <<>>]

\* throw new Error(message) leaving the function
Thrown(message) == [status |-> "error", value |-> JsUndefined, message |-> message]

\* a catch block that rethrows what it caught
CatchRethrow(r, message) == r

\* catch (error) { console.error(...); throw new Error(message) }
Catch(r, message) == IF r.status = "error" THEN Thrown(message) ELSE r

NoCall ==
  [op |-> "none", query |-> <<>>, currentPage |-> 0, id |-> 0,
   tie |-> "idAsc", shape |-> "object", store |-> [kind |-> "ok", text |-> <<>>]]

CallOf(op, query, currentPage, id, tie, shape, store) ==
  [op |-> op, query |-> query, currentPage |-> currentPage, id |-> id,
   tie |-> tie, shape |-> shape, store |-> store]

RevenueMessage == <<"Failed to fetch revenue data.">>

LatestInvoicesMessage == <<"Failed to fetch the latest invoices.">>

CardDataMessage == <<"Failed to fetch card data.">>

FilteredInvoicesMessage == <<"Failed to fetch invoices.">>

InvoicesPagesMessage == <<"Failed to fetch total number of invoices.">>

InvoiceByIdMessage == <<"Failed to fetch invoice.">>

CustomersMessage == <<"Failed to fetch all customers.">>

FilteredCustomersMessage == <<"Failed to fetch customer table.">>

\* the locals of a call do not outlive it
FreshLocals ==
  /\ issued' = {}
  /\ count' = JsUndefined
  /\ invoiceCount' = JsUndefined
  /\ invoiceError' = NoError
  /\ customerCount' = JsUndefined
  /\ customerError' = NoError
  /\ invoiceStatusError' = NoError
  /\ paidTotal' = 0
  /\ pendingTotal' = 0

StoreUnchanged == UNCHANGED <<revenue, customers, invoices>>

(* ---------------------------------------------------------------------- *)
(* fetchRevenue                                                            *)
(* ---------------------------------------------------------------------- *)
\* the try block: the store's error, reported or raised, is thrown
RevenueTry(o) ==
  IF o.kind = "ok" THEN Returned(revenue) ELSE Thrown(o.text)

RevenueResult(o) == Catch(RevenueTry(o), RevenueMessage)

RevenueLog(o) ==
  IF o.kind = "ok" THEN <<>>
  ELSE IF o.kind = "reported"
    THEN <<[label |-> "Supabase Query Error:", detail |-> o.text],
           [label |-> "Fetch Revenue Error:", detail |-> o.text]>>
  ELSE <<[label |-> "Fetch Revenue Error:", detail |-> o.text]>>

fetchRevenue ==
  /\ pc = "idle" /\ ret.status = "none"
  /\ \E o \in BuilderOutcomes :
       /\ call' = CallOf("fetchRevenue", <<>>, 0, 0, "idAsc", "object", o)
       /\ ret' = RevenueResult(o)
       /\ log' = RevenueLog(o)
  /\ FreshLocals
  /\ UNCHANGED pc
  /\ StoreUnchanged

(* ---------------------------------------------------------------------- *)
(* fetchLatestInvoices                                                     *)
(* ---------------------------------------------------------------------- *)
\* the embedded relation customers(name, image_url, email) of an invoice
EmbedCustomers(i, shape) ==
  LET owners == {c \in SeqToSet(customers) : c.id = i.customer_id}
      fields(c) == [name |-> c.name, image_url |-> c.image_url, email |-> c.email]
  IN  IF shape = "array"
        THEN JsArray(IF owners = {} THEN <<>>
                     ELSE <<JsObject(fields(CHOOSE c \in owners : TRUE))>>)
      ELSE IF owners = {} THEN JsNull
      ELSE JsObject(fields(CHOOSE c \in owners : TRUE))

\* rows of the select ... order('date', descending) limit(5)
LatestRows(tie, shape) ==
  LET ordered == OrderByDateDesc(SeqToSet(invoices), tie)
      rows == LimitOffset(ordered, LatestLimit, 0)
  IN  [k \in 1..Len(rows) |->
         [amount |-> rows[k].amount, id |-> rows[k].id, date |-> rows[k].date,
          customer_id |-> rows[k].customer_id,
          customers |-> EmbedCustomers(rows[k], shape)]]

\* a flattening that takes the relation for the customer, whatever its shape
CustomerOfUnchecked(invoice) == invoice.customers

\* the customer a row is flattened from
CustomerOf(invoice) ==
  IF IsArray(invoice.customers) THEN Index0(invoice.customers)
  ELSE invoice.customers

\* the callback of data.map
FlattenInvoice(invoice) ==
  LET customer == CustomerOf(invoice)
  IN  [id |-> invoice.id, date |-> invoice.date,
       customer_id |-> invoice.customer_id, customers |-> invoice.customers,
       amount |-> formatCurrency(invoice.amount),
       name |-> OptName(customer),
       image_url |-> OptImageUrl(customer),
       email |-> OptEmail(customer)]

LatestInvoices(tie, shape) ==
  LET data == LatestRows(tie, shape)
  IN  [k \in 1..Len(data) |-> FlattenInvoice(data[k])]

LatestInvoicesTry(o, tie, shape) ==
  IF o.kind = "ok" THEN Returned(LatestInvoices(tie, shape))
  ELSE Thrown(o.text)

LatestInvoicesResult(o, tie, shape) ==
  Catch(LatestInvoicesTry(o, tie, shape), LatestInvoicesMessage)

LatestInvoicesLog(o) ==
  IF o.kind = "ok" THEN <<>>
  ELSE IF o.kind = "reported"
    THEN <<[label |-> "Error fetching latest invoices", detail |-> o.text],
           [label |-> "Database Error:", detail |-> o.text]>>
  ELSE <<[label |-> "Database Error:", detail |-> o.text]>>

fetchLatestInvoices ==
  /\ pc = "idle" /\ ret.status = "none"
  /\ \E o \in BuilderOutcomes, tie \in TieOrders, shape \in JoinShapes :
       /\ call' = CallOf("fetchLatestInvoices", <<>>, 0, 0, tie, shape, o)
       /\ ret' = LatestInvoicesResult(o, tie, shape)
       /\ log' = LatestInvoicesLog(o)
  /\ FreshLocals
  /\ UNCHANGED pc
  /\ StoreUnchanged

(* ---------------------------------------------------------------------- *)
(* fetchCardData                                                           *)
(* ---------------------------------------------------------------------- *)
CardQueries == {"invoiceCount", "customerCount", "invoiceStatus"}

\* the count field of a select('*', {count: 'exact'}) response
CountOf(o, table) == IF o.kind = "ok" THEN JsNumber(Len(table)) ELSE JsNull

\* rows of select('amount, status').in('status', ['paid', 'pending'])
InvoiceStatusData ==
  LET hit(i) == i.status \in {<<"p", "a", "i", "d">>,
                              <<"p", "e", "n", "d", "i", "n", "g">>}
      rows == SelectSeq(invoices, hit)
  IN  [k \in 1..Len(rows) |-> [amount |-> rows[k].amount, status |-> rows[k].status]]

RECURSIVE ReduceSum(_)
\* rows.reduce((sum, invoice) => sum + parseFloat(invoice.amount), 0)
ReduceSum(rows) ==
  IF rows = <<>> THEN 0
  ELSE ReduceSum(SubSeq(rows, 1, Len(rows) - 1)) + rows[Len(rows)].amount

\* a paid total whose filter was lost
PaidUnfiltered(data) == ReduceSum(data)

Paid(data) ==
  LET isPaid(invoice) == invoice.status = <<"p", "a", "i", "d">>
  IN  ReduceSum(SelectSeq(data, isPaid))

Pending(data) ==
  LET isPending(invoice) == invoice.status = <<"p", "e", "n", "d", "i", "n", "g">>
  IN  ReduceSum(SelectSeq(data, isPending))

\* a summary with the two counts taken from each other's query
CardSummarySwapped(nCustomers, nInvoices, paid, pending) ==
  [numberOfCustomers |-> NumberOrZero(nInvoices),
   numberOfInvoices |-> NumberOrZero(nCustomers),
   totalPaidInvoices |-> formatCurrency(paid),
   totalPendingInvoices |-> formatCurrency(pending)]

CardSummary(nCustomers, nInvoices, paid, pending) ==
  [numberOfCustomers |-> NumberOrZero(nCustomers),
   numberOfInvoices |-> NumberOrZero(nInvoices),
   totalPaidInvoices |-> formatCurrency(paid),
   totalPendingInvoices |-> formatCurrency(pending)]

\* a sub-query rejected: the catch block ends the call
CardCatch(o) ==
  /\ pc' = "idle"
  /\ ret' = Catch(Thrown(o.text), CardDataMessage)
  /\ log' = Append(log, [label |-> "Database Error:", detail |-> o.text])
  /\ UNCHANGED <<issued, invoiceCount, invoiceError, customerCount,
                 customerError, invoiceStatusError, paidTotal, pendingTotal>>

LogIfError(o, label) ==
  IF o.kind = "reported" THEN Append(log, [label |-> label, detail |-> o.text])
  ELSE log

\* the call starts and runs to its first await
fetchCardData ==
  /\ pc = "idle" /\ ret.status = "none"
  /\ pc' = "awaitInvoiceCount"
  /\ call' = CallOf("fetchCardData", <<>>, 0, 0, "idAsc", "object",
                    [kind |-> "ok", text |-> <<>>])
  /\ ret' = [status |-> "running", value |-> JsUndefined, message |-> <<>>]
  /\ log' = <<>>
  /\ issued' = {"invoiceCount"}
  /\ count' = JsUndefined
  /\ invoiceCount' = JsUndefined
  /\ invoiceError' = NoError
  /\ customerCount' = JsUndefined
  /\ customerError' = NoError
  /\ invoiceStatusError' = NoError
  /\ paidTotal' = 0
  /\ pendingTotal' = 0
  /\ StoreUnchanged

\* the invoice count arrives; the customer count is asked for
CardInvoiceCount ==
  /\ pc = "awaitInvoiceCount"
  /\ \E o \in BuilderOutcomes :
       /\ call' = [call EXCEPT !.store = o]
       /\ IF o.kind = "raised" THEN CardCatch(o)
          ELSE /\ invoiceError' = ErrorOf(o)
               /\ invoiceCount' = CountOf(o, invoices)
               /\ log' = LogIfError(o, "Error fetching invoice count:")
               /\ issued' = issued \cup {"customerCount"}
               /\ pc' = "awaitCustomerCount"
               /\ UNCHANGED <<ret, customerCount, customerError,
                              invoiceStatusError, paidTotal, pendingTotal>>
  /\ UNCHANGED count
  /\ StoreUnchanged

\* the customer count arrives; the paid and pending amounts are asked for
CardCustomerCount ==
  /\ pc = "awaitCustomerCount"
  /\ \E o \in BuilderOutcomes :
       /\ call' = [call EXCEPT !.store = o]
       /\ IF o.kind = "raised" THEN CardCatch(o)
          ELSE /\ customerError' = ErrorOf(o)
               /\ customerCount' = CountOf(o, customers)
               /\ log' = LogIfError(o, "Error fetching customer count:")
               /\ issued' = issued \cup {"invoiceStatus"}
               /\ pc' = "awaitInvoiceStatus"
               /\ UNCHANGED <<ret, invoiceCount, invoiceError,
                              invoiceStatusError, paidTotal, pendingTotal>>
  /\ UNCHANGED count
  /\ StoreUnchanged

\* the amounts arrive; the summary is returned
CardInvoiceStatus ==
  /\ pc = "awaitInvoiceStatus"
  /\ \E o \in BuilderOutcomes :
       /\ call' = [call EXCEPT !.store = o]
       /\ IF o.kind = "raised" THEN CardCatch(o)
          ELSE LET paid == IF o.kind = "ok" THEN Paid(InvoiceStatusData) ELSE 0
                   pending == IF o.kind = "ok" THEN Pending(InvoiceStatusData) ELSE 0
               IN  /\ invoiceStatusError' = ErrorOf(o)
                   /\ paidTotal' = paid
                   /\ pendingTotal' = pending
                   /\ log' = LogIfError(o, "Error fetching invoice status data:")
                   /\ ret' = Returned(CardSummary(customerCount, invoiceCount,
                                                  paid, pending))
                   /\ pc' = "idle"
                   /\ UNCHANGED <<issued, invoiceCount, invoiceError,
                                  customerCount, customerError>>
  /\ UNCHANGED count
  /\ StoreUnchanged

(* ---------------------------------------------------------------------- *)
(* fetchFilteredInvoices                                                   *)
(* ---------------------------------------------------------------------- *)
\* an offset that takes the page number for the pages to skip
OffsetFromPage(currentPage) == currentPage * ITEMS_PER_PAGE

Offset(currentPage) == (currentPage - 1) * ITEMS_PER_PAGE

\* invoices.rows of the SELECT ... ORDER BY invoices.date DESC LIMIT OFFSET
FilteredInvoiceRows(query, currentPage, tie) ==
  LET matching == {r \in JoinedInvoices : InvoiceWhere(r, query)}
      ordered == OrderByDateDesc(matching, tie)
      page == LimitOffset(ordered, ITEMS_PER_PAGE, Offset(currentPage))
  IN  [k \in 1..Len(page) |->
         [id |-> page[k].id, amount |-> page[k].amount, date |-> page[k].date,
          status |-> page[k].status, name |-> page[k].name,
          email |-> page[k].email, image_url |-> page[k].image_url]]

FilteredInvoicesTry(o, query, currentPage, tie) ==
  IF o.kind = "ok" THEN Returned(FilteredInvoiceRows(query, currentPage, tie))
  ELSE Thrown(o.text)

DatabaseErrorLog(o) ==
  IF o.kind = "ok" THEN <<>>
  ELSE <<[label |-> "Database Error:", detail |-> o.text]>>

fetchFilteredInvoices ==
  /\ pc = "idle" /\ ret.status = "none"
  /\ \E o \in SqlOutcomes, query \in Queries, currentPage \in 1..MaxPage,
        tie \in TieOrders :
       /\ call' = CallOf("fetchFilteredInvoices", query, currentPage, 0, tie,
                         "object", o)
       /\ ret' = Catch(FilteredInvoicesTry(o, query, currentPage, tie),
                       FilteredInvoicesMessage)
       /\ log' = DatabaseErrorLog(o)
  /\ FreshLocals
  /\ UNCHANGED pc
  /\ StoreUnchanged

(* ---------------------------------------------------------------------- *)
(* fetchInvoicesPages                                                      *)
(* ---------------------------------------------------------------------- *)
\* count.rows[0].count of the SELECT COUNT(*)
CountRows(query) == Cardinality({r \in JoinedInvoices : PagesWhere(r, query)})

\* a page count rounded down
TotalPagesFloor(n) == n \div ITEMS_PER_PAGE

\* Math.ceil(Number(count) / ITEMS_PER_PAGE)
TotalPages(n) ==
  IF n % ITEMS_PER_PAGE = 0 THEN n \div ITEMS_PER_PAGE
  ELSE (n \div ITEMS_PER_PAGE) + 1

InvoicesPagesTry(o, query) ==
  IF o.kind = "ok" THEN Returned(TotalPages(CountRows(query)))
  ELSE Thrown(o.text)

fetchInvoicesPages ==
  /\ pc = "idle" /\ ret.status = "none"
  /\ \E o \in SqlOutcomes, query \in Queries :
       /\ call' = CallOf("fetchInvoicesPages", query, 0, 0, "idAsc", "object", o)
       /\ ret' = Catch(InvoicesPagesTry(o, query), InvoicesPagesMessage)
       /\ log' = DatabaseErrorLog(o)
       /\ count' = IF o.kind = "ok" THEN JsNumber(CountRows(query)) ELSE JsUndefined
  /\ issued' = {}
  /\ invoiceCount' = JsUndefined
  /\ invoiceError' = NoError
  /\ customerCount' = JsUndefined
  /\ customerError' = NoError
  /\ invoiceStatusError' = NoError
  /\ paidTotal' = 0
  /\ pendingTotal' = 0
  /\ UNCHANGED pc
  /\ StoreUnchanged

(* ---------------------------------------------------------------------- *)
(* fetchInvoiceById                                                        *)
(* ---------------------------------------------------------------------- *)
\* data.rows of the SELECT ... WHERE invoices.id = id
InvoiceByIdRows(id) ==
  LET hit(i) == i.id = id
      rows == SelectSeq(invoices, hit)
  IN  [k \in 1..Len(rows) |->
         [id |-> rows[k].id, customer_id |-> rows[k].customer_id,
          amount |-> rows[k].amount, status |-> rows[k].status]]

\* a callback that leaves the amount in cents
ConvertAmountKept(invoice) ==
  [id |-> invoice.id, customer_id |-> invoice.customer_id,
   amount |-> [num |-> invoice.amount, den |-> 1], status |-> invoice.status]

\* the callback of data.rows.map: cents to dollars
ConvertAmount(invoice) ==
  [id |-> invoice.id, customer_id |-> invoice.customer_id,
   amount |-> DivideBy100(invoice.amount), status |-> invoice.status]

\* invoice[0]
InvoiceById(id) ==
  LET rows == InvoiceByIdRows(id)
      invoice == [k \in 1..Len(rows) |-> JsObject(ConvertAmount(rows[k]))]
  IN  Index0(JsArray(invoice))

InvoiceByIdTry(o, id) ==
  IF o.kind = "ok" THEN Returned(InvoiceById(id)) ELSE Thrown(o.text)

fetchInvoiceById ==
  /\ pc = "idle" /\ ret.status = "none"
  /\ \E o \in SqlOutcomes, id \in 1..(MaxInvoices + 1) :
       /\ call' = CallOf("fetchInvoiceById", <<>>, 0, id, "idAsc", "object", o)
       /\ ret' = Catch(InvoiceByIdTry(o, id), InvoiceByIdMessage)
       /\ log' = DatabaseErrorLog(o)
  /\ FreshLocals
  /\ UNCHANGED pc
  /\ StoreUnchanged

(* ---------------------------------------------------------------------- *)
(* fetchCustomers                                                          *)
(* ---------------------------------------------------------------------- *)
\* data.rows of SELECT id, name FROM customers ORDER BY name ASC
CustomerFields ==
  LET ordered == OrderByNameAsc(SeqToSet(customers))
  IN  [k \in 1..Len(ordered) |-> [id |-> ordered[k].id, name |-> ordered[k].name]]

CustomersTry(o) ==
  IF o.kind = "ok" THEN Returned(CustomerFields) ELSE Thrown(o.text)

fetchCustomers ==
  /\ pc = "idle" /\ ret.status = "none"
  /\ \E o \in SqlOutcomes :
       /\ call' = CallOf("fetchCustomers", <<>>, 0, 0, "idAsc", "object", o)
       /\ ret' = Catch(CustomersTry(o), CustomersMessage)
       /\ log' = DatabaseErrorLog(o)
  /\ FreshLocals
  /\ UNCHANGED pc
  /\ StoreUnchanged

(* ---------------------------------------------------------------------- *)
(* fetchFilteredCustomers                                                  *)
(* ---------------------------------------------------------------------- *)
\* the WHERE clause of fetchFilteredCustomers
CustomerWhere(c, query) ==
  \/ ILike(c.name, QueryPattern(query))
  \/ ILike(c.email, QueryPattern(query))

\* one group of customers LEFT JOIN invoices GROUP BY customers.id, ...
CustomerGroup(c) ==
  LET own == {i \in SeqToSet(invoices) : i.customer_id = c.id}
      pending == {i \in own : i.status = <<"p", "e", "n", "d", "i", "n", "g">>}
      paid == {i \in own : i.status = <<"p", "a", "i", "d">>}
  IN  [id |-> c.id, name |-> c.name, email |-> c.email,
       image_url |-> c.image_url,
       total_invoices |-> Cardinality(own),
       total_pending |-> SumAmounts(pending),
       total_paid |-> SumAmounts(paid)]

\* data.rows of the grouped SELECT ... ORDER BY customers.name ASC
CustomersTableRows(query) ==
  OrderByNameAsc({CustomerGroup(c) :
                    c \in {d \in SeqToSet(customers) : CustomerWhere(d, query)}})

\* the callback of data.rows.map
FormatTotals(customer) ==
  [customer EXCEPT !.total_pending = formatCurrency(customer.total_pending),
                   !.total_paid = formatCurrency(customer.total_paid)]

FilteredCustomers(query) ==
  LET rows == CustomersTableRows(query)
  IN  [k \in 1..Len(rows) |-> FormatTotals(rows[k])]

FilteredCustomersTry(o, query) ==
  IF o.kind = "ok" THEN Returned(FilteredCustomers(query)) ELSE Thrown(o.text)

fetchFilteredCustomers ==
  /\ pc = "idle" /\ ret.status = "none"
  /\ \E o \in SqlOutcomes, query \in Queries :
       /\ call' = CallOf("fetchFilteredCustomers", query, 0, 0, "idAsc",
                         "object", o)
       /\ ret' = Catch(FilteredCustomersTry(o, query), FilteredCustomersMessage)
       /\ log' = DatabaseErrorLog(o)
  /\ FreshLocals
  /\ UNCHANGED pc
  /\ StoreUnchanged

(* ---------------------------------------------------------------------- *)
(* The system                                                              *)
(* ---------------------------------------------------------------------- *)
Init ==
  /\ revenue = RevenueTable
  /\ customers \in CustomerTables
  /\ \E n1 \in 0..MaxInvoices, n2 \in 0..MaxPending, n3 \in 0..MaxPending :
       /\ n1 + n2 + n3 <= MaxInvoices
       /\ invoices = MakeInvoices(<<n1, n2, n3>>)
  /\ pc = "idle"
  /\ call = NoCall
  /\ ret = [status |-> "none", value |-> JsUndefined, message |-> <<>>]
  /\ log = <<>>
  /\ issued = {}
  /\ count = JsUndefined
  /\ invoiceCount = JsUndefined
  /\ invoiceError = NoError
  /\ customerCount = JsUndefined
  /\ customerError = NoError
  /\ invoiceStatusError = NoError
  /\ paidTotal = 0
  /\ pendingTotal = 0

Next ==
  \/ fetchRevenue
  \/ fetchLatestInvoices
  \/ fetchCardData
  \/ CardInvoiceCount
  \/ CardCustomerCount
  \/ CardInvoiceStatus
  \/ fetchFilteredInvoices
  \/ fetchInvoicesPages
  \/ fetchInvoiceById
  \/ fetchCustomers
  \/ fetchFilteredCustomers

Spec == Init /\ [][Next]_vars

(* ---------------------------------------------------------------------- *)
(* Vocabulary of the properties                                            *)
(* ---------------------------------------------------------------------- *)
Max(a, b) == IF a > b THEN a ELSE b

Finished(op) == pc = "idle" /\ call.op = op /\ ret.status \in {"ok", "error"}

FinishedOk(op) == pc = "idle" /\ call.op = op /\ ret.status = "ok"

\* the documented message of an operation
FixedMessage(op) ==
  CASE op = "fetchRevenue" -> <<"Failed to fetch revenue data.">>
    [] op = "fetchLatestInvoices" -> <<"Failed to fetch the latest invoices.">>
    [] op = "fetchCardData" -> <<"Failed to fetch card data.">>
    [] op = "fetchFilteredInvoices" -> <<"Failed to fetch invoices.">>
    [] op = "fetchInvoicesPages" -> <<"Failed to fetch total number of invoices.">>
    [] op = "fetchInvoiceById" -> <<"Failed to fetch invoice.">>
    [] op = "fetchCustomers" -> <<"Failed to fetch all customers.">>
    [] op = "fetchFilteredCustomers" -> <<"Failed to fetch customer table.">>

Operations ==
  {"fetchRevenue", "fetchLatestInvoices", "fetchCardData",
   "fetchFilteredInvoices", "fetchInvoicesPages", "fetchInvoiceById",
   "fetchCustomers", "fetchFilteredCustomers"}

\* the store reported or raised an error during the call
StoreFailed ==
  \/ call.store.kind # "ok"
  \/ ~invoiceError.null
  \/ ~customerError.null
  \/ ~invoiceStatusError.null

\* q occurs in s as a substring, letter case ignored
ContainsCI(s, q) ==
  \E i \in 0..(Len(s) - Len(q)) : Lower(SubSeq(s, i + 1, i + Len(q))) = Lower(q)

PaidText == <<"p", "a", "i", "d">>

PendingText == <<"p", "e", "n", "d", "i", "n", "g">>

StoredInvoices == SeqToSet(invoices)

StoredCustomers == SeqToSet(customers)

(* ---------------------------------------------------------------------- *)
(* C1                                                                      *)
(* ---------------------------------------------------------------------- *)
\* C1 (as stated): whenever the store reports or raises an error during a
\* call of any of the eight operations, the call ends in a failure whose
\* message is the operation's fixed string.
C1_EveryStoreFailureFails ==
  \A op \in Operations :
    (Finished(op) /\ StoreFailed) =>
      (ret.status = "error" /\ ret.message = FixedMessage(op))

\* C1 (amended): a call that fails carries exactly the operation's fixed
\* message and never the store's error text; every operation but
\* fetchCardData fails whenever the store reports or raises an error;
\* fetchCardData fails when a sub-query raises, and returns a summary when
\* the errors are only reported in the sub-queries' results; the store's
\* error text is logged.
C1_FailuresCarryFixedMessage ==
  \A op \in Operations :
    Finished(op) =>
      /\ ret.status = "error" =>
           (ret.message = FixedMessage(op) /\ ret.message \notin ErrTexts)
      /\ (op # "fetchCardData" /\ call.store.kind # "ok") => ret.status = "error"
      /\ op = "fetchCardData" => (ret.status = "error" <=> call.store.kind = "raised")
      /\ call.store.kind # "ok" =>
           \E k \in 1..Len(log) : log[k].detail = call.store.text

C1_Witness ==
  /\ Finished("fetchRevenue")
  /\ call.store.kind = "reported"
  /\ ret.status = "error"
  /\ ret.message = RevenueMessage

(* ---------------------------------------------------------------------- *)
(* C2                                                                      *)
(* ---------------------------------------------------------------------- *)
\* C2: whichever of the three sub-fetches of fetchCardData carry an error,
\* the call returns a summary in which each failed sub-metric is zero
\* (count 0, totals formatted zero) and every other sub-metric is the
\* store's value.
C2_PartialFailureDefaults ==
  (Finished("fetchCardData") /\ call.store.kind # "raised") =>
    /\ ret.status = "ok"
    /\ ret.value.numberOfInvoices =
         (IF invoiceError.null THEN Cardinality(StoredInvoices) ELSE 0)
    /\ ret.value.numberOfCustomers =
         (IF customerError.null THEN Cardinality(StoredCustomers) ELSE 0)
    /\ ret.value.totalPaidInvoices =
         (IF invoiceStatusError.null
            THEN formatCurrency(SumAmounts({i \in StoredInvoices : i.status = PaidText}))
            ELSE formatCurrency(0))
    /\ ret.value.totalPendingInvoices =
         (IF invoiceStatusError.null
            THEN formatCurrency(SumAmounts({i \in StoredInvoices : i.status = PendingText}))
            ELSE formatCurrency(0))

C2_Witness ==
  /\ FinishedOk("fetchCardData")
  /\ ~invoiceStatusError.null
  /\ invoiceError.null
  /\ customerError.null
  /\ ret.value.numberOfInvoices = MaxInvoices
  /\ ret.value.numberOfCustomers = 3
  /\ ret.value.totalPaidInvoices = <<"$", "0", ".", "0", "0">>
  /\ \E i \in StoredInvoices : i.status = PaidText

(* ---------------------------------------------------------------------- *)
(* C9                                                                      *)
(* ---------------------------------------------------------------------- *)
\* C9: when all three sub-fetches succeed, the counts are the numbers of
\* stored invoices and customers, the totals are the formatted sums of the
\* paid and of the pending invoices, and every invoice's amount is in
\* exactly one of the two totals.
C9_SummaryOfSuccessfulFetches ==
  (FinishedOk("fetchCardData") /\ invoiceError.null /\ customerError.null
     /\ invoiceStatusError.null) =>
    /\ ret.value.numberOfInvoices = Cardinality(StoredInvoices)
    /\ ret.value.numberOfCustomers = Cardinality(StoredCustomers)
    /\ paidTotal = SumAmounts({i \in StoredInvoices : i.status = PaidText})
    /\ pendingTotal = SumAmounts({i \in StoredInvoices : i.status = PendingText})
    /\ ret.value.totalPaidInvoices = formatCurrency(paidTotal)
    /\ ret.value.totalPendingInvoices = formatCurrency(pendingTotal)
    /\ paidTotal + pendingTotal = SumAmounts(StoredInvoices)

C9_Witness ==
  /\ FinishedOk("fetchCardData")
  /\ invoiceError.null /\ customerError.null /\ invoiceStatusError.null
  /\ paidTotal = 2 * 125000
  /\ pendingTotal = 12345 + 500
  /\ ret.value.numberOfInvoices = 4

(* ---------------------------------------------------------------------- *)
(* C10                                                                     *)
(* ---------------------------------------------------------------------- *)
\* C10: the three sub-queries of fetchCardData are issued without waiting
\* for one another, so whenever the call is suspended waiting for the
\* store, all three have been issued.
C10_IssuedConcurrently == pc # "idle" => issued = CardQueries

(* ---------------------------------------------------------------------- *)
(* C3                                                                      *)
(* ---------------------------------------------------------------------- *)
\* the invoices, joined with their customers, that the search term selects
Matching(query) == {r \in JoinedInvoices : InvoiceWhere(r, query)}

\* C3: fetchFilteredInvoices(q, p) returns at most 6 records, and they are
\* the records at positions (p-1)*6+1 .. (p-1)*6+6 of the matching invoices
\* in issue-date-descending order: as many as that range holds, each a
\* matching invoice returned once, in descending date order, the k-th one
\* standing at position (p-1)*6+k of such an order.
C3_PageIsSliceOfOrderedMatches ==
  FinishedOk("fetchFilteredInvoices") =>
    LET rows == ret.value
        M == Matching(call.query)
        first == (call.currentPage - 1) * 6
    IN  /\ Len(rows) <= 6
        /\ Len(rows) = Min(6, Max(0, Cardinality(M) - first))
        /\ \A k \in 1..Len(rows) :
             /\ \E m \in M :
                  /\ m.id = rows[k].id /\ m.amount = rows[k].amount
                  /\ m.date = rows[k].date /\ m.status = rows[k].status
                  /\ m.name = rows[k].name /\ m.email = rows[k].email
                  /\ m.image_url = rows[k].image_url
             /\ \A j \in 1..Len(rows) : rows[j].id = rows[k].id => j = k
             /\ k > 1 => ~DateLess(rows[k - 1].date, rows[k].date)
             /\ Cardinality({m \in M : DateLess(rows[k].date, m.date)}) <= first + k - 1
             /\ Cardinality({m \in M : ~DateLess(m.date, rows[k].date)}) >= first + k

C3_Witness ==
  /\ FinishedOk("fetchFilteredInvoices")
  /\ call.currentPage = 2
  /\ Len(ret.value) \in 2..5
  /\ \E m, n \in Matching(call.query) : m.date # n.date

\* an offset past the end of the matches gives an empty page
C3_WitnessPastEnd ==
  /\ FinishedOk("fetchFilteredInvoices")
  /\ call.currentPage = 3
  /\ Cardinality(Matching(call.query)) \in 1..12
  /\ ret.value = <<>>

(* ---------------------------------------------------------------------- *)
(* C4                                                                      *)
(* ---------------------------------------------------------------------- *)
RECURSIVE RecordsOnPages(_, _, _)
\* number of records fetchFilteredInvoices returns on pages 1..pages
RecordsOnPages(query, pages, tie) ==
  IF pages = 0 THEN 0
  ELSE RecordsOnPages(query, pages - 1, tie)
         + Len(FilteredInvoiceRows(query, pages, tie))

\* C4: fetchInvoicesPages(q) returns ceil(matchingRowCount / 6): 6 times
\* the page count covers the matching rows and the records returned over
\* all pages, one page fewer would not cover them, no match gives 0 pages
\* and 13 matches give 3.
C4_PageCountIsCeiling ==
  FinishedOk("fetchInvoicesPages") =>
    LET n == Cardinality(Matching(call.query))
        pageCount == ret.value
    IN  /\ pageCount * 6 >= n
        /\ n > 0 => (pageCount - 1) * 6 < n
        /\ n = 0 => pageCount = 0
        /\ n = 13 => pageCount = 3
        /\ \A tie \in TieOrders :
             /\ RecordsOnPages(call.query, pageCount, tie) = n
             /\ pageCount * 6 >= RecordsOnPages(call.query, pageCount, tie)

C4_Witness ==
  /\ FinishedOk("fetchInvoicesPages")
  /\ Cardinality(Matching(call.query)) = 13
  /\ ret.value = 3

(* ---------------------------------------------------------------------- *)
(* C5                                                                      *)
(* ---------------------------------------------------------------------- *)
\* q is a substring, letter case ignored, of one of the five searched fields
SubstringMatch(r, q) ==
  \/ ContainsCI(r.name, q)
  \/ ContainsCI(r.email, q)
  \/ ContainsCI(IntText(r.amount), q)
  \/ ContainsCI(DateText(r.date), q)
  \/ ContainsCI(r.status, q)

\* the invoice with this id is on some page of fetchFilteredInvoices(q, .)
OnSomePage(id, q) ==
  \E p \in 1..(MaxInvoices + 1), tie \in TieOrders :
    \E k \in 1..Len(FilteredInvoiceRows(q, p, tie)) :
      FilteredInvoiceRows(q, p, tie)[k].id = id

\* C5: fetchInvoicesPages and fetchFilteredInvoices agree on what matches
\* (a row is counted if and only if it is on some page), and in both the
\* predicate is the case-insensitive substring match of q against name,
\* email, amount as text, date as text or status.
C5_PredicateAgreement ==
  /\ FinishedOk("fetchInvoicesPages") =>
       /\ count.num = Cardinality({r \in JoinedInvoices : SubstringMatch(r, call.query)})
       /\ \A r \in JoinedInvoices :
            PagesWhere(r, call.query) <=> OnSomePage(r.id, call.query)
  /\ FinishedOk("fetchFilteredInvoices") =>
       \A k \in 1..Len(ret.value) : SubstringMatch(ret.value[k], call.query)

(* ---------------------------------------------------------------------- *)
(* C6                                                                      *)
(* ---------------------------------------------------------------------- *)
\* C6: fetchInvoiceById(id) returns the stored invoice with that id, its
\* amount the stored minor-unit amount divided by 100 (125000 gives 1250)
\* and its id, customer reference and status unchanged; when no invoice has
\* that id it returns undefined rather than failing.
C6_InvoiceByIdConverts ==
  (Finished("fetchInvoiceById") /\ call.store.kind = "ok") =>
    /\ ret.status = "ok"
    /\ \A i \in StoredInvoices :
         i.id = call.id =>
           /\ ret.value.kind = "object"
           /\ ret.value.obj.id = i.id
           /\ ret.value.obj.customer_id = i.customer_id
           /\ ret.value.obj.status = i.status
           /\ ret.value.obj.amount.num * 100 = i.amount * ret.value.obj.amount.den
           /\ i.amount = 125000 => ret.value.obj.amount = [num |-> 1250, den |-> 1]
    /\ (\A i \in StoredInvoices : i.id # call.id) => ret.value = JsUndefined

C6_Witness ==
  /\ FinishedOk("fetchInvoiceById")
  /\ ret.value.kind = "object"
  /\ ret.value.obj.amount = [num |-> 1250, den |-> 1]
  /\ \E i \in StoredInvoices : i.id = call.id /\ i.amount = 125000

C6_WitnessNotFound ==
  /\ FinishedOk("fetchInvoiceById")
  /\ StoredInvoices # {}
  /\ ret.value = JsUndefined

(* ---------------------------------------------------------------------- *)
(* C7                                                                      *)
(* ---------------------------------------------------------------------- *)
OtherShape(shape) == IF shape = "object" THEN "array" ELSE "object"

\* C7: the flattened record of every invoice row (name, email, image
\* reference, formatted amount) is the same whether the store returned the
\* joined customer as one object or as a one-element collection, and it
\* carries that customer's fields.
C7_JoinShapesFlattenAlike ==
  FinishedOk("fetchLatestInvoices") =>
    LET here == ret.value
        there == LatestInvoices(call.tie, OtherShape(call.shape))
    IN  /\ Len(here) = Len(there)
        /\ \A k \in 1..Len(here) :
             /\ here[k].id = there[k].id
             /\ here[k].name = there[k].name
             /\ here[k].email = there[k].email
             /\ here[k].image_url = there[k].image_url
             /\ here[k].amount = there[k].amount
             /\ \A c \in StoredCustomers :
                  c.id = here[k].customer_id =>
                    /\ here[k].name = c.name
                    /\ here[k].email = c.email
                    /\ here[k].image_url = c.image_url

C7_Witness ==
  /\ FinishedOk("fetchLatestInvoices")
  /\ call.shape = "array"
  /\ Len(ret.value) = 5
  /\ \E k \in 1..Len(ret.value) :
       /\ ret.value[k].customers.kind = "array"
       /\ Len(ret.value[k].customers.elems) = 1
       /\ ret.value[k].name = <<"B", "o">>

(* ---------------------------------------------------------------------- *)
(* C8                                                                      *)
(* ---------------------------------------------------------------------- *)
\* C8: fetchFilteredCustomers(q) returns exactly one record per customer
\* whose name or email contains q as a case-insensitive substring, ordered
\* by name ascending, each with the count of the customer's invoices and
\* the formatted sums of its pending and of its paid amounts; a matching
\* customer without invoices has count 0 and both sums zero.
C8_FilteredCustomers ==
  FinishedOk("fetchFilteredCustomers") =>
    LET rows == ret.value
        expected == {c \in StoredCustomers :
                       ContainsCI(c.name, call.query) \/ ContainsCI(c.email, call.query)}
        own(c) == {i \in StoredInvoices : i.customer_id = c.id}
    IN  /\ Len(rows) = Cardinality(expected)
        /\ \A c \in expected :
             \E k \in 1..Len(rows) :
               /\ rows[k].id = c.id /\ rows[k].name = c.name
               /\ rows[k].email = c.email /\ rows[k].image_url = c.image_url
               /\ rows[k].total_invoices = Cardinality(own(c))
               /\ rows[k].total_pending =
                    formatCurrency(SumAmounts({i \in own(c) : i.status = PendingText}))
               /\ rows[k].total_paid =
                    formatCurrency(SumAmounts({i \in own(c) : i.status = PaidText}))
               /\ own(c) = {} =>
                    /\ rows[k].total_invoices = 0
                    /\ rows[k].total_pending = formatCurrency(0)
                    /\ rows[k].total_paid = formatCurrency(0)
        /\ \A k \in 2..Len(rows) : ~TextLess(rows[k].name, rows[k - 1].name)

====
